---- MODULE Spec2Model ----
(***************************************************************************)
(* SpeakMyBook (src/python/app.pyw): the chapter-to-audio pipeline.        *)
(*                                                                         *)
(*   convert_srt_to_lrc      the subtitle formatter          (SpecLrc)     *)
(*   process_text_to_mp3     the retrying synthesis job      (SpecJob)     *)
(*   _generate_ebook_thread  the batch, its list editable    (SpecBatch)   *)
(*   the progress percentage of the batch                    (SpecProgress)*)
(*   the batch's file names, update_mp3_tag                  (SpecCall)    *)
(*   EpubToMp3App            interface thread and workers    (Spec)        *)
(*   tts_preview             the voice preview               (SpecPreview) *)
(*   the worker threads under fair scheduling                (SpecLive)    *)
(*                                                                         *)
(* A Python str is a sequence of one-character strings.  Characters        *)
(* outside ASCII are written by code point: "U4F60" is one character.      *)
(***************************************************************************)
EXTENDS Integers, Sequences, FiniteSets, TLC

VARIABLES
    chapters,       \* self.epub_data['chapters'], the list shared by all threads
    processing,     \* self.processing
    message_queue,  \* self.message_queue, events not yet taken by the interface
    workers,        \* the worker threads started so far, in start order
    fs,             \* the files on disk: path -> content
    ui,             \* the interface thread: widgets, pending callbacks
    job,            \* one process_text_to_mp3 coroutine (SpecJob)
    fmt,            \* one convert_srt_to_lrc call (SpecLrc)
    prog,           \* one evaluation of the progress percentage (SpecProgress)
    call            \* one call of SafeTitle or update_mp3_tag (SpecCall)

vars == <<chapters, processing, message_queue, workers, fs, ui, job, fmt, prog,
          call>>

-----------------------------------------------------------------------------
(* Bounds of the model *)

MaxFrags == 3        \* word boundaries in one drawn subtitle stream
MaxCharsPerLine == 3 \* drawn chars_per_line values are 1..MaxCharsPerLine
MaxChunks == 2       \* chunks the provider streams in one attempt
MaxRetriesArg == 3   \* drawn max_retries arguments are 0..MaxRetriesArg
MaxChapters == 2     \* chapters in a drawn book
MaxEdits == 1        \* deletions and saved edits while workers run
MaxRequests == 2     \* conversion requests the user issues
MaxTotal == 50       \* drawn chapter counts for the progress percentage
MaxTitleLen == 203   \* characters of the longest drawn chapter title
MaxIndex == 2        \* chapter indices drawn for a file name

(* Program constants *)

DEFAULT_CHARS_PER_LINE == 15
MAX_RETRIES == 3
RETRY_DELAY_SECONDS == 5

-----------------------------------------------------------------------------
(* Python str and int formatting helpers *)

DigitChars == <<"0", "1", "2", "3", "4", "5", "6", "7", "8", "9">>
Digit == {DigitChars[k] : k \in 1..10}
DigitVal(c) == (CHOOSE k \in 1..10 : DigitChars[k] = c) - 1

\* str(n) for n >= 0
RECURSIVE Decimal(_)
Decimal(n) == IF n < 10 THEN <<DigitChars[n + 1]>>
              ELSE Decimal(n \div 10) \o <<DigitChars[(n % 10) + 1]>>

\* f"{n:0wd}": zero-padded to at least w digits, never truncated
RECURSIVE ZeroPad(_, _)
ZeroPad(s, w) == IF Len(s) >= w THEN s ELSE ZeroPad(<<"0">> \o s, w)

Pad2(n) == ZeroPad(Decimal(n), 2)
Pad3(n) == ZeroPad(Decimal(n), 3)

\* int(s) for a string of digits
RECURSIVE IntOf(_)
IntOf(s) == IF s = <<>> THEN 0
            ELSE IntOf(SubSeq(s, 1, Len(s) - 1)) * 10 + DigitVal(s[Len(s)])

Whitespace == {" ", "\n", "\t", "\r"}

RECURSIVE LStrip(_)
LStrip(s) == IF s # <<>> /\ Head(s) \in Whitespace THEN LStrip(Tail(s)) ELSE s

RECURSIVE RStrip(_)
RStrip(s) == IF s # <<>> /\ s[Len(s)] \in Whitespace
             THEN RStrip(SubSeq(s, 1, Len(s) - 1)) ELSE s

\* s.strip()
Strip(s) == RStrip(LStrip(s))

\* the pieces of s around the separators of length w that start at the
\* positions in starts
Pieces(s, starts, w) ==
    LET n == Cardinality(starts)
        start(k) == CHOOSE i \in starts : Cardinality({j \in starts : j < i}) = k - 1
        from(k) == IF k = 1 THEN 1 ELSE start(k - 1) + w
        to(k) == IF k = n + 1 THEN Len(s) ELSE start(k) - 1
    IN  [k \in 1..(n + 1) |-> SubSeq(s, from(k), to(k))]

\* s.split('\n')
SplitLines(s) == Pieces(s, {i \in 1..Len(s) : s[i] = "\n"}, 1)

\* the number of consecutive newlines that end right before position i
NewlinesBefore(s, i) ==
    LET others == {j \in 1..(i - 1) : s[j] # "\n"}
    IN  IF others = {} THEN i - 1
        ELSE i - 1 - (CHOOSE j \in others : \A k \in others : k <= j)

\* s.split('\n\n'): the separators are the leftmost non-overlapping
\* occurrences, so within a run of newlines they start at every other one
SplitBlocks(s) ==
    Pieces(s, {i \in 1..(Len(s) - 1) :
                  /\ s[i] = "\n"
                  /\ s[i + 1] = "\n"
                  /\ NewlinesBefore(s, i) % 2 = 0}, 2)

\* sep.join(parts)
RECURSIVE Join(_, _)
Join(parts, sep) ==
    IF parts = <<>> THEN <<>>
    ELSE IF Len(parts) = 1 THEN parts[1]
         ELSE parts[1] \o sep \o Join(Tail(parts), sep)

\* the concatenation of a sequence of strings
Concat(parts) == Join(parts, <<>>)

-----------------------------------------------------------------------------
(* edge_tts.SubMaker: the cues fed from WordBoundary chunks, composed as   *)
(* SRT text.  A cue is [offset, duration, text], times in milliseconds.    *)

\* HH:MM:SS,mmm
SrtStamp(ms) ==
    Pad2(ms \div 3600000) \o <<":">> \o Pad2((ms \div 60000) % 60) \o <<":">>
        \o Pad2((ms \div 1000) % 60) \o <<",">> \o Pad3(ms % 1000)

SrtBlock(k, cue) ==
    Decimal(k) \o <<"\n">>
        \o SrtStamp(cue.offset) \o <<" ", "-", "-", ">", " ">>
        \o SrtStamp(cue.offset + cue.duration) \o <<"\n">>
        \o cue.text \o <<"\n", "\n">>

\* submaker.get_srt()
get_srt(cues) == Concat([k \in 1..Len(cues) |-> SrtBlock(k, cues[k])])

-----------------------------------------------------------------------------
(* convert_srt_to_lrc *)

\* the pattern (\d{2}):(\d{2}):(\d{2}),(\d{3}) matches s at position p
StampAt(s, p) ==
    /\ p + 11 <= Len(s)
    /\ \A k \in {0, 1, 3, 4, 6, 7, 9, 10, 11} : s[p + k] \in Digit
    /\ s[p + 2] = ":"
    /\ s[p + 5] = ":"
    /\ s[p + 8] = ","

\* re.search: the position of the leftmost match, 0 when there is none
RECURSIVE SearchStamp(_, _)
SearchStamp(s, p) ==
    IF p + 11 > Len(s) THEN 0
    ELSE IF StampAt(s, p) THEN p ELSE SearchStamp(s, p + 1)

\* time_ms of the match at p
StampMs(s, p) ==
    LET hours == IntOf(SubSeq(s, p, p + 1))
        minutes == IntOf(SubSeq(s, p + 3, p + 4))
        seconds == IntOf(SubSeq(s, p + 6, p + 7))
        milliseconds == IntOf(SubSeq(s, p + 9, p + 11))
    IN  (hours * 3600 + minutes * 60 + seconds) * 1000 + milliseconds

\* the items one block appends to all_items: none or one
ParseBlock(block) ==
    LET lines == SplitLines(block)
    IN  IF Len(lines) >= 3 /\ Strip(lines[2]) # <<>>
        THEN LET p == SearchStamp(lines[2], 1)
             IN  IF p > 0
                 THEN <<[time_ms |-> StampMs(lines[2], p), text |-> lines[3]]>>
                 ELSE <<>>
        ELSE <<>>

\* all_items before the sort
ParseSrt(srt_content) ==
    LET srt_blocks == SplitBlocks(Strip(srt_content))
    IN  Concat([b \in 1..Len(srt_blocks) |-> ParseBlock(srt_blocks[b])])

RECURSIVE InsertByTime(_, _)
InsertByTime(sorted, x) ==
    IF sorted = <<>> THEN <<x>>
    ELSE IF Head(sorted).time_ms <= x.time_ms
         THEN <<Head(sorted)>> \o InsertByTime(Tail(sorted), x)
         ELSE <<x>> \o sorted

\* SortByTime without the sort
SortByTimeKeepOrder(items) == items

\* all_items.sort(key=lambda x: x[0]): stable, ascending by time
RECURSIVE SortByTime(_)
SortByTime(items) ==
    IF items = <<>> THEN <<>>
    ELSE InsertByTime(SortByTime(SubSeq(items, 1, Len(items) - 1)), items[Len(items)])

\* FlushNow one character early
FlushNowEarly(current_text, cpl, i, n) == Len(current_text) + 1 >= cpl \/ i = n

\* FlushNow with > for >=
FlushNowLate(current_text, cpl, i, n) == Len(current_text) > cpl \/ i = n

\* whether the buffer is flushed after item i was added to it
FlushNow(current_text, cpl, i, n) == Len(current_text) >= cpl \/ i = n

\* the loop over all_items from item i on; current_time None is -1
RECURSIVE MergeLoop(_, _, _, _, _, _)
MergeLoop(all_items, i, cpl, current_text, current_time, merged_items) ==
    IF i > Len(all_items) THEN merged_items
    ELSE LET time0 == IF current_text = <<>> THEN all_items[i].time_ms
                      ELSE current_time
             text0 == current_text \o all_items[i].text
         IN  IF FlushNow(text0, cpl, i, Len(all_items))
             THEN MergeLoop(all_items, i + 1, cpl, <<>>, time0,
                            IF text0 # <<>>
                            THEN Append(merged_items,
                                        [time_ms |-> time0, text |-> text0])
                            ELSE merged_items)
             ELSE MergeLoop(all_items, i + 1, cpl, text0, time0, merged_items)

\* MergeItems with the buffer flushed once more after the loop, unguarded
MergeItemsFinalFlush(all_items, cpl) ==
    LET merged == MergeLoop(all_items, 1, cpl, <<>>, -1, <<>>)
    IN  Append(merged, [time_ms |-> all_items[Len(all_items)].time_ms,
                        text |-> <<>>])

MergeItems(all_items, cpl) == MergeLoop(all_items, 1, cpl, <<>>, -1, <<>>)

\* LrcTime with the hundredths rounded to nearest
LrcTimeRounded(time_ms) ==
    LET minutes == (time_ms \div 1000) \div 60
        seconds == (time_ms \div 1000) % 60
        milliseconds == ((time_ms % 1000) + 5) \div 10
    IN  <<"[">> \o Pad2(minutes) \o <<":">> \o Pad2(seconds) \o <<".">>
            \o Pad2(milliseconds) \o <<"]">>

\* [MM:SS.CC]
LrcTime(time_ms) ==
    LET minutes == (time_ms \div 1000) \div 60
        seconds == (time_ms \div 1000) % 60
        milliseconds == (time_ms % 1000) \div 10
    IN  <<"[">> \o Pad2(minutes) \o <<":">> \o Pad2(seconds) \o <<".">>
            \o Pad2(milliseconds) \o <<"]">>

LrcLine(item) == LrcTime(item.time_ms) \o item.text

\* RenderLrc with every line ended by a newline, a blank result included
RenderLrcLineEnds(merged_items) ==
    Join([k \in 1..Len(merged_items) |-> LrcLine(merged_items[k])], <<"\n">>)
        \o <<"\n">>

RenderLrc(merged_items) ==
    Join([k \in 1..Len(merged_items) |-> LrcLine(merged_items[k])], <<"\n">>)

\* the locals of one call when it returns
LrcCall(srt_content, cpl) ==
    LET all_items == SortByTime(ParseSrt(srt_content))
        merged_items == IF all_items = <<>> THEN <<>>
                        ELSE MergeItems(all_items, cpl)
    IN  [all_items |-> all_items,
         merged_items |-> merged_items,
         result |-> RenderLrc(merged_items)]

convert_srt_to_lrc(srt_content, cpl) == LrcCall(srt_content, cpl).result

-----------------------------------------------------------------------------
(* Python float arithmetic (IEEE 754 binary64, round to nearest, ties to   *)
(* even) for the progress percentage.  A positive float is [m, e]: m its   *)
(* 53 significand bits, most significant first, and its value is m * 2^e.  *)
(* Zero is [m |-> <<>>, e |-> 0].                                          *)

\* 2^k mod b, by repeated squaring
RECURSIVE Pow2Mod(_, _)
Pow2Mod(k, b) ==
    IF k = 0 THEN 1 % b
    ELSE LET h == Pow2Mod(k \div 2, b)
         IN  (((h * h) % b) * (IF k % 2 = 1 THEN 2 ELSE 1)) % b

\* the bits of v < 2^w, most significant first, in w places
BitsOf(v, w) == [j \in 1..w |-> (v \div (2 ^ (w - j))) % 2]

\* the number a sequence of at most 30 bits stands for
RECURSIVE NatOfBits(_)
NatOfBits(bits) ==
    IF bits = <<>> THEN 0
    ELSE 2 * NatOfBits(SubSeq(bits, 1, Len(bits) - 1)) + bits[Len(bits)]

\* bits without its leading zeros
StripZeros(bits) ==
    LET ones == {j \in 1..Len(bits) : bits[j] = 1}
    IN  IF ones = {} THEN <<>>
        ELSE SubSeq(bits, CHOOSE j \in ones : \A k \in ones : j <= k, Len(bits))

\* bits + 1, in Len(bits) places; all ones wrap to all zeros
Increment(bits) ==
    LET zeros == {j \in 1..Len(bits) : bits[j] = 0}
        last == IF zeros = {} THEN 0
                ELSE CHOOSE j \in zeros : \A k \in zeros : k <= j
    IN  [j \in 1..Len(bits) |-> IF j < last THEN bits[j]
                                ELSE IF j = last THEN 1 ELSE 0]

\* the float nearest to m * 2^e, where m is 53 bits, guard the next bit of
\* the exact value and sticky whether anything non-zero follows it
RoundFloat(m, e, guard, sticky) ==
    IF guard = 1 /\ (sticky \/ m[53] = 1)
    THEN IF \A j \in 1..53 : m[j] = 1
         THEN [m |-> [j \in 1..53 |-> IF j = 1 THEN 1 ELSE 0], e |-> e + 1]
         ELSE [m |-> Increment(m), e |-> e]
    ELSE [m |-> m, e |-> e]

\* a / b for ints a >= 0, b > 0
FloatDiv(a, b) ==
    IF a = 0 THEN [m |-> <<>>, e |-> 0]
    ELSE LET q == StripZeros(BitsOf(a \div b, 31))   \* the integer part
             r0 == a % b
             \* the remainder after k fraction bits, and fraction bit k
             rem(k) == (r0 * Pow2Mod(k, b)) % b
             fb(k) == (2 * rem(k - 1)) \div b
             \* leading zero fraction bits when the integer part is 0
             z == IF q # <<>> THEN 0
                  ELSE (CHOOSE k \in 1..32 :
                           fb(k) = 1 /\ \A h \in 1..(k - 1) : fb(h) = 0) - 1
             bit(j) == IF j <= Len(q) THEN q[j] ELSE fb(z + j - Len(q))
             last == z + 53 - Len(q)                \* the last fraction bit kept
         IN  RoundFloat([j \in 1..53 |-> bit(j)], Len(q) - 53 - z,
                        IF last + 1 >= 1 THEN fb(last + 1) ELSE 0,
                        rem(last + 1) # 0)

\* the limbs of x * c, least significant first, base 1024
RECURSIVE MulLimbs(_, _, _)
MulLimbs(limbs, c, carry) ==
    IF limbs = <<>> THEN <<carry>>
    ELSE LET v == Head(limbs) * c + carry
         IN  <<v % 1024>> \o MulLimbs(Tail(limbs), c, v \div 1024)

\* x * c for a float x and an int c with 0 < c < 1024
FloatMul(x, c) ==
    IF x.m = <<>> THEN x
    ELSE LET wide == [j \in 1..7 |-> 0] \o x.m        \* 60 bits, 6 limbs
             limbs == [k \in 1..6 |->
                          NatOfBits(SubSeq(wide, 60 - 10 * k + 1, 60 - 10 * (k - 1)))]
             prod == MulLimbs(limbs, c, 0)            \* 7 limbs
             bits == StripZeros(
                         [j \in 1..70 |->
                             BitsOf(prod[7 - ((j - 1) \div 10)], 10)[((j - 1) % 10) + 1]])
             d == Len(bits) - 53                      \* bits dropped
         IN  IF d <= 0
             THEN [m |-> bits \o [j \in 1..(-d) |-> 0], e |-> x.e + d]
             ELSE RoundFloat(SubSeq(bits, 1, 53), x.e + d, bits[54],
                             \E j \in 55..Len(bits) : bits[j] = 1)

\* int(x) for a float 0 <= x < 2^30
FloatToInt(x) ==
    IF x.m = <<>> \/ 53 + x.e <= 0 THEN 0
    ELSE NatOfBits(SubSeq(x.m, 1, 53 + x.e))

\* int((i - 1) / len(chapters) * 100); len(chapters) = 0 raises
ProgressPct(i, total) == FloatToInt(FloatMul(FloatDiv(i - 1, total), 100))

-----------------------------------------------------------------------------
(* The disk.  A path is [dir, name, ext]; files maps the paths that exist  *)
(* to their content, a sequence of strings (audio data or characters).     *)

EmptyFs(dirs) == [dirs |-> dirs, files |-> <<>>, tags |-> <<>>]

Exists(fsys, path) == path \in DOMAIN fsys.files

\* WriteFile with the file opened for appending
WriteFileAppending(fsys, path, content) ==
    [fsys EXCEPT !.files =
        [p \in (DOMAIN fsys.files) \cup {path} |->
            IF p = path
            THEN (IF Exists(fsys, path) THEN fsys.files[path] ELSE <<>>) \o content
            ELSE fsys.files[p]]]

\* open(path, "w") and what is written until the file is closed
WriteFile(fsys, path, content) ==
    [fsys EXCEPT !.files =
        [p \in (DOMAIN fsys.files) \cup {path} |->
            IF p = path THEN content ELSE fsys.files[p]]]

\* os.makedirs(dir, exist_ok=True)
MakeDirs(fsys, dir) == [fsys EXCEPT !.dirs = @ \cup {dir}]

-----------------------------------------------------------------------------
(* The speech provider as process_text_to_mp3 sees it: what one attempt    *)
(* meets.  stage is where the attempt raises ("ok": nowhere); chunks are   *)
(* the chunks communicate.stream() yields before that.                     *)

AudioChunk(d) ==
    [type |-> "audio", data |-> d, offset |-> 0, duration |-> 0, text |-> <<>>]
WordBoundary(offset, duration, text) ==
    [type |-> "WordBoundary", data |-> "", offset |-> offset,
     duration |-> duration, text |-> text]
SentenceBoundary ==
    [type |-> "SentenceBoundary", data |-> "", offset |-> 0, duration |-> 0,
     text |-> <<>>]

ChunkKinds == {"audio", "WordBoundary", "SentenceBoundary"}

\* the chunk of a kind that arrives as number k of a stream: audio data are
\* numbered, word boundaries advance 300 ms a chunk
ChunkAt(kind, k) ==
    CASE kind = "audio" -> AudioChunk(Decimal(k))
      [] kind = "WordBoundary" ->
            WordBoundary(300 * (k - 1), 250,
                         IF k % 2 = 1 THEN <<"a">> ELSE <<"b", "c">>)
      [] kind = "SentenceBoundary" -> SentenceBoundary

RECURSIVE SeqsUpTo(_, _)
SeqsUpTo(S, n) ==
    IF n = 0 THEN {<<>>}
    ELSE LET shorter == SeqsUpTo(S, n - 1)
         IN  shorter \cup {Append(t, x) : t \in {u \in shorter : Len(u) = n - 1}, x \in S}

Streams ==
    {[k \in 1..Len(kinds) |-> ChunkAt(kinds[k], k)] :
        kinds \in SeqsUpTo(ChunkKinds, MaxChunks)}

Behaviours ==
    [stage : {"communicate", "makedirs", "open_audio"}, chunks : {<<>>}]
        \cup [stage : {"stream", "open_lrc", "ok"}, chunks : Streams]

\* what the worker threads meet: an attempt that raises before the audio file
\* is created, one that raises after the stream, one that completes
WorkerStream == <<ChunkAt("WordBoundary", 1), ChunkAt("audio", 2)>>
WorkerBehaviours ==
    {b \in Behaviours : /\ b.stage \in {"makedirs", "stream", "ok"}
                        /\ b.stage # "makedirs" => b.chunks = WorkerStream}

\* the data audio_file.write received, in arrival order
AudioOf(chunks) ==
    LET audio == SelectSeq(chunks, LAMBDA c : c.type = "audio")
    IN  [k \in 1..Len(audio) |-> audio[k].data]

\* the cues submaker.feed received, in arrival order
CuesOf(chunks) == SelectSeq(chunks, LAMBDA c : c.type = "WordBoundary")

-----------------------------------------------------------------------------
(* process_text_to_mp3 *)

NewJob(text, output_audio, output_lrc, chars_per_line, max_retries) ==
    [text |-> text, output_audio |-> output_audio, output_lrc |-> output_lrc,
     chars_per_line |-> chars_per_line, max_retries |-> max_retries,
     pc |-> "loop",          \* "loop", "sleeping", "returned"
     started |-> 0,          \* iterations of the for loop begun
     result |-> "none",      \* "none", "True", "False"
     outcomes |-> <<>>,      \* per attempt: "empty", "raised", "completed"
     last_error |-> "",      \* the stage at which the latest attempt raised
     client_calls |-> 0,     \* edge_tts.Communicate constructions
     sleeps |-> 0,           \* asyncio.sleep(RETRY_DELAY_SECONDS) calls
     slept |-> 0,            \* seconds slept
     stderr |-> <<>>,        \* the lines printed to sys.stderr
     streamed |-> <<>>]      \* audio data the latest attempt received

\* IsBlank without the strip: only the empty string counts
IsBlankEmptyOnly(text) == text = <<>>

\* not text or not text.strip()
IsBlank(text) == text = <<>> \/ Strip(text) = <<>>

\* AttemptFs with the subtitle file never written
AttemptFsNoSubtitle(j, fsys, b) ==
    IF b.stage \in {"stream", "open_lrc", "ok"}
    THEN WriteFile(MakeDirs(fsys, j.output_audio.dir), j.output_audio,
                   AudioOf(b.chunks))
    ELSE fsys

\* the disk after an attempt that met b
AttemptFs(j, fsys, b) ==
    LET dir == j.output_audio.dir
        audio == AudioOf(b.chunks)
        lrc == convert_srt_to_lrc(get_srt(CuesOf(b.chunks)), j.chars_per_line)
    IN  CASE b.stage \in {"communicate", "makedirs"} -> fsys
          [] b.stage = "open_audio" -> MakeDirs(fsys, dir)
          [] b.stage \in {"stream", "open_lrc"} ->
                WriteFile(MakeDirs(fsys, dir), j.output_audio, audio)
          [] b.stage = "ok" ->
                WriteFile(WriteFile(MakeDirs(fsys, dir), j.output_audio, audio),
                          j.output_lrc, lrc)

\* RetryAfter with a delay after the final attempt too
RetryAfterEveryAttempt(attempt, max_retries) == attempt < max_retries

\* whether the except clause retries: attempt < max_retries - 1
RetryAfter(attempt, max_retries) == attempt < max_retries - 1

\* ExceptClause with nothing printed for the last attempt
ExceptClauseSilentLast(j, attempt, b) ==
    IF RetryAfter(attempt, j.max_retries)
    THEN [j EXCEPT !.stderr = @ \o <<[kind |-> "attempt_error", attempt |-> attempt + 1],
                                     [kind |-> "retry_wait", attempt |-> attempt + 1]>>,
                   !.sleeps = @ + 1,
                   !.last_error = b.stage,
                   !.pc = "sleeping"]
    ELSE [j EXCEPT !.last_error = b.stage, !.pc = "loop"]

\* the except clause, for the attempt with loop variable attempt
ExceptClause(j, attempt, b) ==
    IF RetryAfter(attempt, j.max_retries)
    THEN [j EXCEPT !.stderr = @ \o <<[kind |-> "attempt_error", attempt |-> attempt + 1],
                                     [kind |-> "retry_wait", attempt |-> attempt + 1]>>,
                   !.sleeps = @ + 1,
                   !.last_error = b.stage,
                   !.pc = "sleeping"]
    ELSE [j EXCEPT !.stderr = @ \o <<[kind |-> "final_error", attempt |-> attempt + 1],
                                     [kind |-> "traceback", attempt |-> attempt + 1]>>,
                   !.last_error = b.stage,
                   !.pc = "loop"]

\* one iteration of the for loop, up to its return, its sleep or its end
JobAttempt(j, fsys, b) ==
    LET attempt == j.started
        j1 == [j EXCEPT !.started = @ + 1]
    IN  IF IsBlank(j.text)
        THEN [job |-> [j1 EXCEPT !.stderr = Append(@, [kind |-> "warn_empty",
                                                        attempt |-> attempt + 1]),
                                 !.outcomes = Append(@, "empty"),
                                 !.result = "False",
                                 !.pc = "returned"],
              fs |-> fsys]
        ELSE LET j2 == [j1 EXCEPT !.client_calls = @ + 1,
                                  !.streamed = AudioOf(b.chunks)]
             IN  IF b.stage = "ok"
                 THEN [job |-> [j2 EXCEPT !.outcomes = Append(@, "completed"),
                                          !.result = "True",
                                          !.pc = "returned"],
                       fs |-> AttemptFs(j, fsys, b)]
                 ELSE [job |-> ExceptClause([j2 EXCEPT !.outcomes = Append(@, "raised")],
                                            attempt, b),
                       fs |-> AttemptFs(j, fsys, b)]

\* asyncio.sleep(RETRY_DELAY_SECONDS) is over
JobWake(j) == [j EXCEPT !.pc = "loop", !.slept = @ + RETRY_DELAY_SECONDS]

\* range(max_retries) is exhausted: return False
JobLoopExit(j) == [j EXCEPT !.result = "False", !.pc = "returned"]

\* every way the coroutine can run to its return from [job, fs], against a
\* provider that behaves as one of behaviours in each attempt
RECURSIVE JobRuns(_, _)
JobRuns(st, behaviours) ==
    IF st.job.pc = "returned" THEN {st}
    ELSE IF st.job.pc = "sleeping"
         THEN JobRuns([st EXCEPT !.job = JobWake(st.job)], behaviours)
         ELSE IF st.job.started >= st.job.max_retries
              THEN JobRuns([st EXCEPT !.job = JobLoopExit(st.job)], behaviours)
              ELSE UNION {JobRuns(JobAttempt(st.job, st.fs, b), behaviours) :
                             b \in behaviours}

\* loop.run_until_complete(process_text_to_mp3(text, mp3, lrc, voice, cpl)):
\* the ways the call can end, max_retries defaulted
RunJob(fsys, text, output_mp3, output_lrc, chars_per_line) ==
    JobRuns([job |-> NewJob(text, output_mp3, output_lrc, chars_per_line, MAX_RETRIES),
             fs |-> fsys], WorkerBehaviours)

-----------------------------------------------------------------------------
(* update_mp3_tag: outcome is what mutagen meets, "ok" or the step that    *)
(* raises.  The tags written are kept beside the files.                    *)

TagOutcomes == {"ok", "open_error", "save_error"}

\* a variant that reports success whenever the file could be opened
update_mp3_tagOpenedIsTrue(fsys, mp3_path, lrc_path, title, outcome) ==
    [ok |-> outcome # "open_error", fs |-> fsys]

update_mp3_tag(fsys, mp3_path, lrc_path, title, outcome) ==
    IF outcome = "ok"
    THEN [ok |-> TRUE,
          fs |-> [fsys EXCEPT !.tags =
                    [p \in (DOMAIN fsys.tags) \cup {mp3_path} |->
                        IF p = mp3_path
                        THEN [title |-> title,
                              lyrics |-> IF Exists(fsys, lrc_path)
                                         THEN <<fsys.files[lrc_path]>> ELSE <<>>]
                        ELSE fsys.tags[p]]]]
    ELSE [ok |-> FALSE, fs |-> fsys]

-----------------------------------------------------------------------------
(* The events put on self.message_queue.  msg names the message template,  *)
(* title, a and b are what the template is filled with; i is the chapter   *)
(* of the batch loop the event was put in (0 outside the loop).            *)

Event(type, msg, title, a, b, i) ==
    [type |-> type, msg |-> msg, title |-> title, a |-> a, b |-> b, i |-> i]
Log(msg, title, i) == Event("log", msg, title, 0, 0, i)
Status(msg, a, b, i) == Event("status", msg, <<>>, a, b, i)
Progress(value, i) == Event("progress", "", <<>>, value, 0, i)

-----------------------------------------------------------------------------
(* File names *)

IllegalChars == {"\\", "/", "*", "?", ":", "\"", "<", ">", "|"}

\* a variant that cuts the title before it strips it
SafeTitleCutFirst(title, i) ==
    LET cut == IF Len(title) > 200
               THEN SubSeq(title, 1, 197) \o <<".", ".", ".">>
               ELSE title
        stripped == SelectSeq(cut, LAMBDA c : c \notin IllegalChars)
    IN  IF stripped = <<>> THEN <<"U7AE0", "U8282">> \o Decimal(i)
        ELSE stripped

\* the safe_title of chapter i in the batch loop
SafeTitle(title, i) ==
    LET stripped == SelectSeq(title, LAMBDA c : c \notin IllegalChars)
        named == IF stripped = <<>> THEN <<"U7AE0", "U8282">> \o Decimal(i)
                 ELSE stripped
    IN  IF Len(named) > 200
        THEN SubSeq(named, 1, 197) \o <<".", ".", ".">>
        ELSE named

\* f"{i:03d}-{safe_title}"
OutputName(i, safe_title) == Pad3(i) \o <<"-">> \o safe_title

OutputPath(output_dir, i, safe_title, ext) ==
    [dir |-> output_dir, name |-> OutputName(i, safe_title), ext |-> ext]

-----------------------------------------------------------------------------
(* Worker threads.  A worker is one record for both kinds of thread.       *)

NoPath == [dir |-> "", name |-> <<>>, ext |-> ""]

NewWorker(kind, title, content, output_mp3, output_lrc) ==
    [kind |-> kind,
     book |-> chapters,       \* the chapters when the request was made           \* "batch" or "single"
     pc |-> "start",
     loop |-> "none",         \* the worker's asyncio event loop
     it |-> 0,                \* the list iterator's index (batch)
     i |-> 0,                 \* enumerate's counter (batch)
     title |-> title,         \* the chapter in hand
     content |-> content,
     output_mp3 |-> output_mp3,
     output_lrc |-> output_lrc,
     result |-> "none",       \* what process_text_to_mp3 returned
     error |-> "",            \* the exception the try block caught
     events |-> <<>>,         \* every event this worker has put
     runs |-> <<>>]           \* every process_text_to_mp3 call it has made

Running(w) == workers[w].pc # "done"

\* worker w becomes wk after putting events evs on the queue
Put(w, wk, evs) ==
    /\ workers' = [workers EXCEPT ![w] = [wk EXCEPT !.events = @ \o evs]]
    /\ message_queue' = message_queue \o evs

\* self.root.after(0, callback) from a worker
After(callback) == ui' = [ui EXCEPT !.after = Append(@, callback)]

\* not content.strip()
IsEmptyChapter(content) == Strip(content) = <<>>

\* the log event after a chapter's synthesis, lines 1689-1695
SynthLog(title, result, tagged, i) ==
    IF result = "True"
    THEN IF tagged THEN Log("done", title, i) ELSE Log("tag_failed", title, i)
    ELSE Log("generate_failed", title, i)

-----------------------------------------------------------------------------
(* _generate_ebook_thread, worker w *)

\* lines 1649-1661: the first events and the event loop
BatchStart(w) ==
    /\ workers[w].kind = "batch" /\ workers[w].pc = "start"
    /\ Put(w, [workers[w] EXCEPT !.pc = "for", !.loop = "open"],
           <<Event("log", "batch_start", <<>>, Len(chapters), 0, 0),
             Status("processing", 0, Len(chapters), 0)>>)
    /\ UNCHANGED <<chapters, processing, fs, ui, job, fmt, prog, call>>

\* line 1663: the for statement takes the next chapter of the shared list,
\* or ends the loop
BatchFor(w) ==
    /\ workers[w].kind = "batch" /\ workers[w].pc = "for"
    /\ IF workers[w].it < Len(chapters)
       THEN workers' = [workers EXCEPT ![w] =
                [@ EXCEPT !.pc = "body", !.it = @ + 1, !.i = @ + 1,
                          !.title = chapters[workers[w].it + 1].title,
                          !.content = chapters[workers[w].it + 1].content]]
       ELSE workers' = [workers EXCEPT ![w] = [@ EXCEPT !.pc = "complete"]]
    /\ UNCHANGED <<chapters, processing, message_queue, fs, ui, job, fmt, prog, call>>

\* lines 1664-1679: names, progress, and the skip of an empty chapter
BatchBody(w) ==
    LET wk == workers[w]
        safe_title == SafeTitle(wk.title, wk.i)
        named == [wk EXCEPT !.output_mp3 = OutputPath("out", wk.i, safe_title, "mp3"),
                            !.output_lrc = OutputPath("out", wk.i, safe_title, "lrc")]
    IN  /\ wk.kind = "batch" /\ wk.pc = "body"
        /\ IF Len(chapters) = 0
           THEN /\ workers' = [workers EXCEPT ![w] =
                      [named EXCEPT !.pc = "except", !.error = "ZeroDivisionError"]]
                /\ UNCHANGED message_queue
           ELSE Put(w, [named EXCEPT !.pc = IF IsEmptyChapter(wk.content)
                                            THEN "for" ELSE "synth"],
                    <<Progress(ProgressPct(wk.i, Len(chapters)), wk.i),
                      Status("processing", wk.i - 1, Len(chapters), wk.i),
                      IF IsEmptyChapter(wk.content)
                      THEN Log("skip_empty", wk.title, wk.i)
                      ELSE Log("process", wk.title, wk.i)>>)
        /\ UNCHANGED <<chapters, processing, fs, ui, job, fmt, prog, call>>

\* lines 1680-1695: the synthesis job, the tags, the chapter's log event
BatchSynth(w) ==
    LET wk == workers[w]
    IN  /\ wk.kind = "batch" /\ wk.pc = "synth"
        /\ \E st \in RunJob(fs, wk.content, wk.output_mp3, wk.output_lrc,
                            DEFAULT_CHARS_PER_LINE),
              outcome \in TagOutcomes :
              LET tag == update_mp3_tag(st.fs, wk.output_mp3, wk.output_lrc,
                                        wk.title, outcome)
                  tagged == st.job.result = "True" /\ tag.ok
              IN  /\ st.job.result = "False" => outcome = "ok"
                  /\ fs' = IF st.job.result = "True" THEN tag.fs ELSE st.fs
                  /\ Put(w, [wk EXCEPT !.pc = "for", !.result = st.job.result,
                                       !.runs = Append(@, [i |-> wk.i,
                                                          result |-> st.job.result,
                                                          tagged |-> tagged])],
                         <<SynthLog(wk.title, st.job.result, tagged, wk.i)>>)
        /\ UNCHANGED <<chapters, processing, ui, job, fmt, prog, call>>

\* lines 1696-1712: the completion events
BatchComplete(w) ==
    /\ workers[w].kind = "batch" /\ workers[w].pc = "complete"
    /\ Put(w, [workers[w] EXCEPT !.pc = "finally"],
           <<Progress(100, 0),
             Status("batch_done", Len(chapters), Len(chapters), 0),
             Log("all_done", <<>>, 0),
             Log("elapsed", <<>>, 0)>>)
    /\ After("ask_open_dir")
    /\ UNCHANGED <<chapters, processing, fs, job, fmt, prog, call>>

\* BatchExcept with the dialog only: nothing put on the queue
BatchExceptDialogOnly(w) ==
    /\ workers[w].kind = "batch" /\ workers[w].pc = "except"
    /\ workers' = [workers EXCEPT ![w] = [@ EXCEPT !.pc = "finally"]]
    /\ After("showerror")
    /\ UNCHANGED <<chapters, processing, message_queue, fs, job, fmt, prog, call>>

\* lines 1714-1718: an exception left the loop
BatchExcept(w) ==
    /\ workers[w].kind = "batch" /\ workers[w].pc = "except"
    /\ Put(w, [workers[w] EXCEPT !.pc = "finally"],
           <<Log("batch_error", <<>>, 0), Status("batch_error", 0, 0, 0)>>)
    /\ After("showerror")
    /\ UNCHANGED <<chapters, processing, fs, job, fmt, prog, call>>

\* BatchFinally with the flag left as it is
BatchFinallyFlagKept(w) ==
    /\ workers[w].kind = "batch" /\ workers[w].pc = "finally"
    /\ workers' = [workers EXCEPT ![w] = [@ EXCEPT !.pc = "done"]]
    /\ After("generate_ebook_button_normal")
    /\ UNCHANGED <<chapters, processing, message_queue, fs, job, fmt, prog, call>>

\* lines 1719-1721
BatchFinally(w) ==
    /\ workers[w].kind = "batch" /\ workers[w].pc = "finally"
    /\ workers' = [workers EXCEPT ![w] = [@ EXCEPT !.pc = "done"]]
    /\ processing' = FALSE
    /\ After("generate_ebook_button_normal")
    /\ UNCHANGED <<chapters, message_queue, fs, job, fmt, prog, call>>

-----------------------------------------------------------------------------
(* _convert_single_chapter_thread, worker w *)

\* lines 1422-1432
SingleStart(w) ==
    /\ workers[w].kind = "single" /\ workers[w].pc = "start"
    /\ Put(w, [workers[w] EXCEPT !.pc = "synth"],
           <<Log("single_start", workers[w].title, 0),
             Status("converting", 0, 0, 0),
             Progress(0, 0)>>)
    /\ processing' = TRUE
    /\ After("convert_chapter_button_disabled")
    /\ UNCHANGED <<chapters, fs, job, fmt, prog, call>>

\* lines 1434-1458: the cover, the event loop, the synthesis job; reading the
\* cover file may raise
SingleSynth(w) ==
    LET wk == workers[w]
    IN  /\ wk.kind = "single" /\ wk.pc = "synth"
        /\ \/ /\ workers' = [workers EXCEPT ![w] =
                    [wk EXCEPT !.pc = "except", !.error = "OSError"]]
              /\ UNCHANGED <<message_queue, fs>>
           \/ \E st \in RunJob(fs, wk.content, wk.output_mp3, wk.output_lrc,
                               DEFAULT_CHARS_PER_LINE) :
                 /\ fs' = st.fs
                 /\ Put(w, [wk EXCEPT !.pc = "report", !.loop = "open",
                                      !.result = st.job.result,
                                      !.runs = Append(@, [i |-> 0,
                                                         result |-> st.job.result,
                                                         tagged |-> FALSE])],
                        <<Log("generating", <<>>, 0)>>)
        /\ UNCHANGED <<chapters, processing, ui, job, fmt, prog, call>>

\* lines 1460-1502: the tags and the events that report the outcome
SingleReport(w) ==
    LET wk == workers[w]
    IN  /\ wk.kind = "single" /\ wk.pc = "report"
        /\ IF wk.result = "True"
           THEN \E outcome \in TagOutcomes :
                   LET tag == update_mp3_tag(fs, wk.output_mp3, wk.output_lrc,
                                             wk.title, outcome)
                   IN  /\ fs' = tag.fs
                       /\ IF tag.ok
                          THEN /\ Put(w, [wk EXCEPT !.pc = "finally"],
                                      <<Progress(80, 0), Log("tagging", <<>>, 0),
                                        Progress(100, 0), Log("done", wk.title, 0),
                                        Log("elapsed", <<>>, 0),
                                        Status("single_done", 0, 0, 0)>>)
                               /\ After("ask_open_dir")
                          ELSE /\ Put(w, [wk EXCEPT !.pc = "finally"],
                                      <<Progress(80, 0), Log("tagging", <<>>, 0),
                                        Log("tag_failed", <<>>, 0),
                                        Status("tag_failed", 0, 0, 0)>>)
                               /\ UNCHANGED ui
           ELSE /\ Put(w, [wk EXCEPT !.pc = "finally"],
                       <<Log("generate_failed", <<>>, 0),
                         Status("single_failed", 0, 0, 0)>>)
                /\ After("showerror")
                /\ UNCHANGED fs
        /\ UNCHANGED <<chapters, processing, job, fmt, prog, call>>

\* lines 1504-1508
SingleExcept(w) ==
    /\ workers[w].kind = "single" /\ workers[w].pc = "except"
    /\ Put(w, [workers[w] EXCEPT !.pc = "finally"],
           <<Log("single_error", <<>>, 0), Status("single_error", 0, 0, 0)>>)
    /\ After("showerror")
    /\ UNCHANGED <<chapters, processing, fs, job, fmt, prog, call>>

\* lines 1510-1513
SingleFinally(w) ==
    /\ workers[w].kind = "single" /\ workers[w].pc = "finally"
    /\ workers' = [workers EXCEPT ![w] = [@ EXCEPT !.pc = "done"]]
    /\ processing' = FALSE
    /\ After("convert_chapter_button_normal")
    /\ UNCHANGED <<chapters, message_queue, fs, job, fmt, prog, call>>

-----------------------------------------------------------------------------
(* The interface thread.  Every handler runs to its end before the next.   *)

\* start_generate_ebook; confirm is the user's answer to the dialog
start_generate_ebook(confirm) ==
    /\ ui.requests < MaxRequests
    /\ IF processing
       THEN /\ ui' = [ui EXCEPT !.requests = @ + 1, !.busy = @ + 1]
            /\ UNCHANGED <<processing, workers, fs>>
       ELSE IF chapters = <<>>
            THEN /\ ui' = [ui EXCEPT !.requests = @ + 1]
                 /\ UNCHANGED <<processing, workers, fs>>
            ELSE /\ fs' = MakeDirs(fs, "out")
                 /\ IF ~confirm
                    THEN /\ ui' = [ui EXCEPT !.requests = @ + 1]
                         /\ UNCHANGED <<processing, workers>>
                    ELSE /\ processing' = TRUE
                         /\ ui' = [ui EXCEPT !.requests = @ + 1,
                                             !.generate_ebook_button = "disabled"]
                         /\ workers' = Append(workers,
                                NewWorker("batch", <<>>, <<>>, NoPath, NoPath))
    /\ UNCHANGED <<chapters, message_queue, job, fmt, prog, call>>

\* convert_chapter_to_mp3(index); confirm is the user's answer to the dialog
convert_chapter_to_mp3(index, confirm) ==
    /\ ui.requests < MaxRequests
    /\ IF index < 0 \/ index >= Len(chapters)
       THEN /\ ui' = [ui EXCEPT !.requests = @ + 1]
            /\ UNCHANGED <<workers, fs>>
       ELSE LET title == chapters[index + 1].title
                content == chapters[index + 1].content
                stripped == SelectSeq(title, LAMBDA c : c \notin IllegalChars)
                safe_title == IF stripped = <<>>
                              THEN <<"U7AE0", "U8282">> \o Decimal(index + 1)
                              ELSE stripped
            IN  IF Strip(content) = <<>>
                THEN /\ ui' = [ui EXCEPT !.requests = @ + 1]
                     /\ UNCHANGED <<workers, fs>>
                ELSE /\ fs' = MakeDirs(fs, "out")
                     /\ ui' = [ui EXCEPT !.requests = @ + 1]
                     /\ IF ~confirm
                        THEN UNCHANGED workers
                        ELSE workers' = Append(workers,
                                 NewWorker("single", title, content,
                                     [dir |-> "out", name |-> safe_title, ext |-> "mp3"],
                                     [dir |-> "out", name |-> safe_title, ext |-> "lrc"]))
    /\ UNCHANGED <<chapters, processing, message_queue, job, fmt, prog, call>>

\* tts_preview, the preview button's command: the provider's stream is run
\* by the handler itself; stage is where the synthesis raises, if it does
PreviewMp3 == [dir |-> "temp", name |-> <<"t", "t", "s">>, ext |-> "mp3"]

tts_preview ==
    /\ ui.requests < MaxRequests
    /\ IF processing
       THEN /\ ui' = [ui EXCEPT !.requests = @ + 1, !.busy = @ + 1]
            /\ UNCHANGED fs
       ELSE \E stage \in {"communicate", "stream", "ok"} :
               /\ fs' = IF stage = "communicate" THEN fs
                        ELSE WriteFile(fs, PreviewMp3, AudioOf(WorkerStream))
               /\ ui' = [ui EXCEPT !.requests = @ + 1,
                                   !.interface_streams =
                                       IF stage = "communicate" THEN @ ELSE @ + 1]
    /\ UNCHANGED <<chapters, processing, message_queue, workers, job, fmt, prog,
                   call>>

\* convert_current_chapter: the button under the chapter text
convert_current_chapter(confirm) ==
    /\ ui.convert_chapter_button = "normal"
    /\ IF ui.current_chapter_index < 0
       THEN /\ ui.requests < MaxRequests
            /\ ui' = [ui EXCEPT !.requests = @ + 1]
            /\ UNCHANGED <<chapters, processing, message_queue, workers, fs,
                           job, fmt, prog, call>>
       ELSE convert_chapter_to_mp3(ui.current_chapter_index, confirm)

\* on_chapter_select of list item index
on_chapter_select(index) ==
    /\ index \in 0..(Len(chapters) - 1)
    /\ index # ui.current_chapter_index
    /\ ui' = [ui EXCEPT !.current_chapter_index = index,
                        !.chapter_save_button = "normal",
                        !.convert_chapter_button = "normal"]
    /\ UNCHANGED <<chapters, processing, message_queue, workers, fs, job, fmt, prog, call>>

\* save_chapter_content; text is what the text box holds
save_chapter_content(text) ==
    /\ ui.chapter_save_button = "normal"
    /\ ui.edits < MaxEdits
    /\ ui.current_chapter_index \in 0..(Len(chapters) - 1)
    /\ chapters' = [chapters EXCEPT ![ui.current_chapter_index + 1].content =
                        Strip(text)]
    /\ ui' = [ui EXCEPT !.edits = @ + 1]
    /\ UNCHANGED <<processing, message_queue, workers, fs, job, fmt, prog, call>>

\* delete_chapter(index) from the right-click menu, confirmed
delete_chapter(index) ==
    /\ ui.edits < MaxEdits
    /\ index \in 0..(Len(chapters) - 1)
    /\ chapters' = [k \in 1..(Len(chapters) - 1) |->
                       IF k <= index THEN chapters[k] ELSE chapters[k + 1]]
    /\ ui' = [ui EXCEPT !.edits = @ + 1,
                 !.current_chapter_index =
                     IF @ = index THEN -1 ELSE IF @ > index THEN @ - 1 ELSE @,
                 !.chapter_save_button =
                     IF ui.current_chapter_index = index THEN "disabled" ELSE @,
                 !.convert_chapter_button =
                     IF ui.current_chapter_index = index THEN "disabled" ELSE @]
    /\ UNCHANGED <<processing, message_queue, workers, fs, job, fmt, prog, call>>

\* process_messages: one polling tick takes everything on the queue
process_messages ==
    /\ message_queue # <<>>
    /\ message_queue' = <<>>
    /\ UNCHANGED <<chapters, processing, workers, fs, ui, job, fmt, prog, call>>

\* a callback scheduled with root.after(0, ...) runs
run_after ==
    /\ ui.after # <<>>
    /\ LET callback == Head(ui.after)
           rest == [ui EXCEPT !.after = Tail(@)]
       IN  ui' = CASE callback = "convert_chapter_button_disabled" ->
                        [rest EXCEPT !.convert_chapter_button = "disabled"]
                   [] callback = "convert_chapter_button_normal" ->
                        [rest EXCEPT !.convert_chapter_button = "normal"]
                   [] callback = "generate_ebook_button_normal" ->
                        [rest EXCEPT !.generate_ebook_button = "normal"]
                   [] OTHER -> rest
    /\ UNCHANGED <<chapters, processing, message_queue, workers, fs, job, fmt, prog, call>>


-----------------------------------------------------------------------------
(* Values of the variables a specification does not use *)

NoJob == NewJob(<<>>, [dir |-> "", name |-> <<>>, ext |-> ""],
                [dir |-> "", name |-> <<>>, ext |-> ""], 0, 0)
NoFmt == [pc |-> "none", srt_content |-> <<>>, chars_per_line |-> 0,
          all_items |-> <<>>, merged_items |-> <<>>, result |-> <<>>]
NoProg == [pc |-> "none", i |-> 0, total |-> 0, pct |-> 0]
NoCall == [pc |-> "none"]
NoUi == [busy |-> 0, after |-> <<>>, requests |-> 0, interface_streams |-> 0,
         edits |-> 0, current_chapter_index |-> -1,
         convert_chapter_button |-> "disabled",
         chapter_save_button |-> "disabled",
         generate_ebook_button |-> "normal"]

-----------------------------------------------------------------------------
(* SpecLrc: convert_srt_to_lrc applied to drawn subtitle streams *)

CueChoices ==
    {WordBoundary(o, 250, t) : o \in {0, 300, 600}, t \in {<<"a">>, <<"b", "c">>}}

\* the end-to-end scenario of the specification, section 8
ScenarioCues ==
    <<WordBoundary(0, 250, <<"U4F60">>), WordBoundary(300, 250, <<"U597D">>),
      WordBoundary(600, 250, <<"U4E16">>), WordBoundary(900, 250, <<"U754C">>)>>

\* streams whose word boundaries carry an empty, blank or two-line text
OddCues ==
    {<<WordBoundary(0, 250, <<>>), WordBoundary(300, 250, <<"a">>)>>,
     <<WordBoundary(0, 250, <<"a">>), WordBoundary(300, 250, <<>>)>>,
     <<WordBoundary(0, 250, <<" ">>), WordBoundary(300, 250, <<"a">>)>>,
     <<WordBoundary(0, 250, <<"a", "\n", "b">>), WordBoundary(300, 250, <<"c">>)>>}

\* single word boundaries late in a long chapter
LateCues ==
    {<<WordBoundary(o, 250, <<"a">>)>> :
        o \in {9, 10, 999, 59999, 60000, 3599999, 3600000, 5999990, 6000000}}

SrtInputs ==
    {get_srt(cues) : cues \in SeqsUpTo(CueChoices, MaxFrags)
                        \cup {ScenarioCues} \cup OddCues \cup LateCues}
        \cup {<<"1", "\n", "x", "\n", "a">>}

InitLrc ==
    /\ fmt \in {[pc |-> "call", srt_content |-> s, chars_per_line |-> c,
                 all_items |-> <<>>, merged_items |-> <<>>, result |-> <<>>] :
                    s \in SrtInputs, c \in 1..MaxCharsPerLine}
    /\ chapters = <<>> /\ processing = FALSE /\ message_queue = <<>>
    /\ workers = <<>> /\ fs = EmptyFs({}) /\ ui = NoUi
    /\ job = NoJob /\ prog = NoProg /\ call = NoCall

\* the call returns
LrcConvert ==
    /\ fmt.pc = "call"
    /\ LET r == LrcCall(fmt.srt_content, fmt.chars_per_line)
       IN  fmt' = [fmt EXCEPT !.pc = "done", !.all_items = r.all_items,
                              !.merged_items = r.merged_items,
                              !.result = r.result]
    /\ UNCHANGED <<chapters, processing, message_queue, workers, fs, ui, job, prog, call>>

NextLrc == LrcConvert

SpecLrc == InitLrc /\ [][NextLrc]_vars

-----------------------------------------------------------------------------
(* SpecJob: one process_text_to_mp3 coroutine against a drawn provider *)

JobTexts == {<<>>, <<" ", "\n">>, <<"h", "i">>}
JobAudio == [dir |-> "out", name |-> <<"t">>, ext |-> "mp3"]
JobLrc == [dir |-> "out", name |-> <<"t">>, ext |-> "lrc"]

InitJob ==
    /\ job \in {NewJob(t, JobAudio, JobLrc, 2, m) :
                    t \in JobTexts, m \in 0..MaxRetriesArg}
    /\ fs = EmptyFs({})
    /\ chapters = <<>> /\ processing = FALSE /\ message_queue = <<>>
    /\ workers = <<>> /\ ui = NoUi /\ fmt = NoFmt /\ prog = NoProg /\ call = NoCall

\* JobAttemptStep with range(max_retries + 1)
JobAttemptStepOneMore ==
    /\ job.pc = "loop"
    /\ job.started <= job.max_retries
    /\ \E b \in Behaviours :
          LET r == JobAttempt(job, fs, b)
          IN  job' = r.job /\ fs' = r.fs
    /\ UNCHANGED <<chapters, processing, message_queue, workers, ui, fmt, prog, call>>

JobAttemptStep ==
    /\ job.pc = "loop"
    /\ job.started < job.max_retries
    /\ \E b \in Behaviours :
          LET r == JobAttempt(job, fs, b)
          IN  job' = r.job /\ fs' = r.fs
    /\ UNCHANGED <<chapters, processing, message_queue, workers, ui, fmt, prog, call>>

JobWakeStep ==
    /\ job.pc = "sleeping"
    /\ job' = JobWake(job)
    /\ UNCHANGED <<chapters, processing, message_queue, workers, fs, ui, fmt, prog, call>>

JobLoopExitStep ==
    /\ job.pc = "loop"
    /\ job.started >= job.max_retries
    /\ job' = JobLoopExit(job)
    /\ UNCHANGED <<chapters, processing, message_queue, workers, fs, ui, fmt, prog, call>>

NextJob == JobAttemptStep \/ JobWakeStep \/ JobLoopExitStep

SpecJob == InitJob /\ [][NextJob]_vars

-----------------------------------------------------------------------------
(* SpecProgress: the percentage the batch loop puts before chapter i of a  *)
(* list of total chapters                                                  *)

InitProgress ==
    /\ prog \in {[pc |-> "call", i |-> i, total |-> total, pct |-> 0] :
                    total \in 1..MaxTotal, i \in 1..MaxTotal}
    /\ prog.i <= prog.total
    /\ chapters = <<>> /\ processing = FALSE /\ message_queue = <<>>
    /\ workers = <<>> /\ fs = EmptyFs({}) /\ ui = NoUi
    /\ job = NoJob /\ fmt = NoFmt /\ call = NoCall

ProgressStep ==
    /\ prog.pc = "call"
    /\ prog' = [prog EXCEPT !.pc = "done", !.pct = ProgressPct(prog.i, prog.total)]
    /\ UNCHANGED <<chapters, processing, message_queue, workers, fs, ui, job, fmt, call>>

NextProgress == ProgressStep

SpecProgress == InitProgress /\ [][NextProgress]_vars

-----------------------------------------------------------------------------
(* The application with a book loaded                                      *)

Chapter(title, content) == [title |-> title, content |-> content]

\* what parse_epub_data can deliver: any title, any text, blank text included
BookTitles == {<<"a">>, <<"/">>}
BookContents == {<<" ">>, <<"h", "i">>}
BookChapters == {Chapter(t, c) : t \in BookTitles, c \in BookContents}
Books == SeqsUpTo(BookChapters, MaxChapters) \ {<<>>}

InitApp(books) ==
    /\ chapters \in books
    /\ processing = FALSE
    /\ message_queue = <<>>
    /\ workers = <<>>
    /\ fs = EmptyFs({})
    /\ ui = NoUi
    /\ job = NoJob /\ fmt = NoFmt /\ prog = NoProg /\ call = NoCall

(* SpecBatch: generating the whole book, the chapter list open to edits *)
InitBatch == InitApp(Books)

NextBatch ==
    \/ \E confirm \in BOOLEAN : start_generate_ebook(confirm)
    \/ \E w \in 1..Len(workers) : BatchStart(w)
    \/ \E w \in 1..Len(workers) : BatchFor(w)
    \/ \E w \in 1..Len(workers) : BatchBody(w)
    \/ \E w \in 1..Len(workers) : BatchSynth(w)
    \/ \E w \in 1..Len(workers) : BatchComplete(w)
    \/ \E w \in 1..Len(workers) : BatchExcept(w)
    \/ \E w \in 1..Len(workers) : BatchFinally(w)
    \/ \E index \in 0..(MaxChapters - 1) : on_chapter_select(index)
    \/ \E index \in 0..(MaxChapters - 1) : delete_chapter(index)
    \/ \E text \in BookContents : save_chapter_content(text)

SpecBatch == InitBatch /\ [][NextBatch]_vars

(* Spec: every handler and both workers, one small book *)
AppBooks == {<<Chapter(<<"a">>, <<"h", "i">>)>>}

Init == InitApp(AppBooks)

Next ==
    \/ \E confirm \in BOOLEAN : start_generate_ebook(confirm)
    \/ \E confirm \in BOOLEAN : convert_current_chapter(confirm)
    \/ \E index \in 0..(MaxChapters - 1), confirm \in BOOLEAN :
          convert_chapter_to_mp3(index, confirm)
    \/ \E w \in 1..Len(workers) : BatchStart(w)
    \/ \E w \in 1..Len(workers) : BatchFor(w)
    \/ \E w \in 1..Len(workers) : BatchBody(w)
    \/ \E w \in 1..Len(workers) : BatchSynth(w)
    \/ \E w \in 1..Len(workers) : BatchComplete(w)
    \/ \E w \in 1..Len(workers) : BatchExcept(w)
    \/ \E w \in 1..Len(workers) : BatchFinally(w)
    \/ \E w \in 1..Len(workers) : SingleStart(w)
    \/ \E w \in 1..Len(workers) : SingleSynth(w)
    \/ \E w \in 1..Len(workers) : SingleReport(w)
    \/ \E w \in 1..Len(workers) : SingleExcept(w)
    \/ \E w \in 1..Len(workers) : SingleFinally(w)
    \/ \E index \in 0..(MaxChapters - 1) : on_chapter_select(index)
    \/ \E index \in 0..(MaxChapters - 1) : delete_chapter(index)
    \/ process_messages
    \/ run_after

Spec == Init /\ [][Next]_vars

(* SpecPreview: the voice preview beside single-chapter conversions *)
InitPreview == InitApp(AppBooks)

NextPreview ==
    \/ tts_preview
    \/ \E index \in 0..(MaxChapters - 1), confirm \in BOOLEAN :
          convert_chapter_to_mp3(index, confirm)
    \/ \E w \in 1..Len(workers) : SingleStart(w)
    \/ \E w \in 1..Len(workers) : SingleSynth(w)
    \/ \E w \in 1..Len(workers) : SingleReport(w)
    \/ \E w \in 1..Len(workers) : SingleExcept(w)
    \/ \E w \in 1..Len(workers) : SingleFinally(w)
    \/ process_messages
    \/ run_after

SpecPreview == InitPreview /\ [][NextPreview]_vars

(* SpecLive: the requests and both workers, every started thread scheduled *)
(* again and again until it ends; the calls a thread makes all return      *)
InitLive == InitApp(AppBooks)

NextLive ==
    \/ \E confirm \in BOOLEAN : start_generate_ebook(confirm)
    \/ \E index \in 0..(MaxChapters - 1), confirm \in BOOLEAN :
          convert_chapter_to_mp3(index, confirm)
    \/ \E index \in 0..(MaxChapters - 1) : delete_chapter(index)
    \/ \E w \in 1..Len(workers) : BatchStart(w)
    \/ \E w \in 1..Len(workers) : BatchFor(w)
    \/ \E w \in 1..Len(workers) : BatchBody(w)
    \/ \E w \in 1..Len(workers) : BatchSynth(w)
    \/ \E w \in 1..Len(workers) : BatchComplete(w)
    \/ \E w \in 1..Len(workers) : BatchExcept(w)
    \/ \E w \in 1..Len(workers) : BatchFinally(w)
    \/ \E w \in 1..Len(workers) : SingleStart(w)
    \/ \E w \in 1..Len(workers) : SingleSynth(w)
    \/ \E w \in 1..Len(workers) : SingleReport(w)
    \/ \E w \in 1..Len(workers) : SingleExcept(w)
    \/ \E w \in 1..Len(workers) : SingleFinally(w)

\* the next statement of thread w, the batch's synthesis apart
WorkerStep(w) ==
    /\ w <= Len(workers)
    /\ \/ BatchStart(w) \/ BatchFor(w) \/ BatchBody(w)
       \/ BatchComplete(w) \/ BatchExcept(w) \/ BatchFinally(w)
       \/ SingleStart(w) \/ SingleSynth(w) \/ SingleReport(w)
       \/ SingleExcept(w) \/ SingleFinally(w)

\* thread w is at the batch's synthesis: BatchSynth(w) is enabled exactly here
AtBatchSynth(w) ==
    /\ w <= Len(workers)
    /\ workers[w].kind = "batch" /\ workers[w].pc = "synth"

\* weak fairness of BatchSynth(w), its enabling condition written out
FairBatchSynth(w) ==
    \/ []<>(~AtBatchSynth(w))
    \/ []<><<w <= Len(workers) /\ BatchSynth(w)>>_vars

SpecLive ==
    /\ InitLive /\ [][NextLive]_vars
    /\ \A w \in 1..MaxRequests : WF_vars(WorkerStep(w)) /\ FairBatchSynth(w)

-----------------------------------------------------------------------------
(* Properties of process_text_to_mp3, checked under SpecJob *)

\* C2: a job whose attempts before the N-th raise and whose N-th attempt
\* completes (1 <= N <= max_retries, text not blank) has returned True; and
\* whenever a job has returned True, the audio file and the subtitle file
\* both exist on disk.
JobSucceedsWhenAnAttemptCompletes ==
    LET n == Len(job.outcomes)
    IN  /\ (/\ n >= 1
            /\ job.outcomes[n] = "completed"
            /\ \A k \in 1..(n - 1) : job.outcomes[k] = "raised")
           => /\ job.pc = "returned"
              /\ job.result = "True"
              /\ n <= job.max_retries
        /\ job.result = "True"
           => /\ Exists(fs, job.output_audio)
              /\ Exists(fs, job.output_lrc)

\* C2 witness: the third of three attempts completed after two raised
JobSucceededOnThirdAttempt ==
    /\ job.max_retries = 3
    /\ job.outcomes = <<"raised", "raised", "completed">>
    /\ job.result = "True"
    /\ Exists(fs, job.output_audio)
    /\ Exists(fs, job.output_lrc)

\* C3: a job with text that is not blank whose every attempt raised returns
\* False after exactly max_retries attempts, and has printed exactly
\* max_retries attempt-failure lines, one for each attempt.
JobExhaustsAfterMaxRetries ==
    LET failures == {k \in 1..Len(job.stderr) :
                        job.stderr[k].kind \in {"attempt_error", "final_error"}}
    IN  (/\ job.pc = "returned"
         /\ \E k \in 1..Len(job.text) : job.text[k] \notin Whitespace
         /\ \A k \in 1..Len(job.outcomes) : job.outcomes[k] = "raised")
        => /\ job.result = "False"
           /\ job.started = job.max_retries
           /\ Len(job.outcomes) = job.max_retries
           /\ Cardinality(failures) = job.max_retries
           /\ \A a \in 1..job.max_retries :
                 Cardinality({k \in failures : job.stderr[k].attempt = a}) = 1

\* C3 witness: three attempts raised and the job returned False
JobExhaustedThreeAttempts ==
    /\ job.pc = "returned"
    /\ job.max_retries = 3
    /\ job.outcomes = <<"raised", "raised", "raised">>
    /\ job.result = "False"

\* C4: a job given empty or whitespace-only text never constructs the
\* synthesis client, never sleeps a retry delay, never begins a second
\* attempt, writes nothing, and returns False, whatever max_retries is.
BlankTextFailsAtOnce ==
    (\A k \in 1..Len(job.text) : job.text[k] \in Whitespace)
    => /\ job.client_calls = 0
       /\ job.sleeps = 0
       /\ job.pc # "sleeping"
       /\ job.started <= 1
       /\ job.started = 1 => job.pc = "returned"
       /\ job.pc = "returned" => job.result = "False"
       /\ fs = EmptyFs({})

\* C4 witness: whitespace-only text, three attempts allowed, one made
BlankTextReturnedFalse ==
    /\ job.text = <<" ", "\n">>
    /\ job.max_retries = 3
    /\ job.pc = "returned"
    /\ job.started = 1
    /\ job.result = "False"

-----------------------------------------------------------------------------
(* Properties of convert_srt_to_lrc, checked under SpecLrc *)

\* C5: for every input with at least one timed fragment and every positive
\* chars_per_line, the start times of the produced lines never decrease,
\* and the texts of the lines concatenated equal the fragment texts
\* concatenated in order of time, fragments of equal time in input order.
LinesKeepEveryFragment ==
    LET frags == ParseSrt(fmt.srt_content)
        n == Len(frags)
        rank(k) == Cardinality({h \in 1..n :
                        \/ frags[h].time_ms < frags[k].time_ms
                        \/ frags[h].time_ms = frags[k].time_ms /\ h < k}) + 1
        ordered == [r \in 1..n |-> frags[CHOOSE k \in 1..n : rank(k) = r].text]
        lines == fmt.merged_items
    IN  (fmt.pc = "done" /\ n >= 1)
        => /\ \A k \in 1..(Len(lines) - 1) :
                 lines[k].time_ms <= lines[k + 1].time_ms
           /\ Concat([k \in 1..Len(lines) |-> lines[k].text]) = Concat(ordered)

\* C5 witness: fragments emitted out of time order, two of them at the same
\* time, merged into two lines
OutOfOrderFragmentsMerged ==
    /\ fmt.pc = "done"
    /\ fmt.chars_per_line = 2
    /\ ParseSrt(fmt.srt_content) =
          <<[time_ms |-> 600, text |-> <<"b", "c">>],
            [time_ms |-> 0, text |-> <<"a">>],
            [time_ms |-> 0, text |-> <<"b", "c">>]>>
    /\ fmt.merged_items =
          <<[time_ms |-> 0, text |-> <<"a", "b", "c">>],
            [time_ms |-> 600, text |-> <<"b", "c">>]>>

\* C6: the fragments (0, U+4F60), (300, U+597D), (600, U+4E16), (900, U+754C)
\* with chars_per_line = 2 give exactly the lines (0, U+4F60 U+597D) and
\* (600, U+4E16 U+754C), rendered [00:00.00] and [00:00.60] before their
\* texts and joined by one newline.
ScenarioGivesTwoLines ==
    (/\ fmt.pc = "done"
     /\ fmt.srt_content = get_srt(ScenarioCues)
     /\ fmt.chars_per_line = 2)
    => /\ fmt.merged_items =
             <<[time_ms |-> 0, text |-> <<"U4F60", "U597D">>],
               [time_ms |-> 600, text |-> <<"U4E16", "U754C">>]>>
       /\ fmt.result =
             <<"[", "0", "0", ":", "0", "0", ".", "0", "0", "]", "U4F60", "U597D",
               "\n",
               "[", "0", "0", ":", "0", "0", ".", "6", "0", "]", "U4E16", "U754C">>

\* C6 witness: the scenario was converted with chars_per_line = 2
ScenarioConverted ==
    /\ fmt.pc = "done"
    /\ fmt.srt_content = get_srt(ScenarioCues)
    /\ fmt.chars_per_line = 2
    /\ Len(fmt.merged_items) = 2

-----------------------------------------------------------------------------
(* The single-worker rule, checked under Spec *)

\* C1: whatever the order of the user's requests (start_generate_ebook,
\* convert_chapter_to_mp3 from the button or the right-click menu), at most
\* one conversion worker, batch or single-chapter, is running at any time: a
\* request made while a worker runs starts no worker.
AtMostOneWorkerRuns ==
    Cardinality({w \in 1..Len(workers) : Running(w)}) <= 1

-----------------------------------------------------------------------------
(* Properties of _generate_ebook_thread, checked under SpecBatch.  They    *)
(* speak of a batch that has ended, of the K chapters the book had when    *)
(* the batch was requested, and of the loop counter i the events carry.    *)

\* C7: in a batch over K chapters, a chapter j with empty or whitespace-only
\* content is skipped and nothing else is: exactly one skip log event is put
\* for j, the synthesis job is not run for j, and every chapter j+1..K is
\* still handled, in order.
BlankChapterSkippedAlone ==
    \A w \in 1..Len(workers) :
        LET wk == workers[w]
            K == Len(wk.book)
            skips(j) == {k \in 1..Len(wk.events) :
                            /\ wk.events[k].msg = "skip_empty"
                            /\ wk.events[k].i = j}
            ran(j) == \E k \in 1..Len(wk.runs) : wk.runs[k].i = j
        IN  (wk.kind = "batch" /\ wk.pc = "done")
            => /\ \A j \in 1..K :
                     (\A c \in 1..Len(wk.book[j].content) :
                          wk.book[j].content[c] \in Whitespace)
                     => /\ Cardinality(skips(j)) = 1
                        /\ ~ran(j)
                        /\ \A m \in (j + 1)..K : ran(m) \/ skips(m) # {}
               /\ \A k \in 1..(Len(wk.runs) - 1) : wk.runs[k].i < wk.runs[k + 1].i

\* C8: in a batch, a chapter whose synthesis job returned False does not end
\* the batch: a failure log event is put for that chapter, every later
\* chapter is still handled, and the batch ends with its completion events.
ExhaustedChapterDoesNotAbort ==
    \A w \in 1..Len(workers) :
        LET wk == workers[w]
            K == Len(wk.book)
            logged(msg, j) == \E k \in 1..Len(wk.events) :
                                 /\ wk.events[k].type = "log"
                                 /\ wk.events[k].msg = msg
                                 /\ wk.events[k].i = j
            ran(j) == \E k \in 1..Len(wk.runs) : wk.runs[k].i = j
        IN  (wk.kind = "batch" /\ wk.pc = "done")
            => \A r \in 1..Len(wk.runs) :
                  wk.runs[r].result = "False"
                  => /\ logged("generate_failed", wk.runs[r].i)
                     /\ \A m \in (wk.runs[r].i + 1)..K :
                           ran(m) \/ logged("skip_empty", m)
                     /\ logged("all_done", 0)
                     /\ logged("elapsed", 0)
                     /\ \E k \in 1..Len(wk.events) :
                           wk.events[k].type = "progress" /\ wk.events[k].a = 100

\* C9: a batch of K chapters, none blank, whose synthesis jobs all returned
\* True, started on an empty output directory, leaves exactly K audio files
\* and at most K subtitle files, the audio file of chapter i named with the
\* prefix 00i-, and the last progress event it put has value 100.
AllChaptersWritten ==
    LET wk == workers[1]
        K == Len(wk.book)
        files(ext) == {path \in DOMAIN fs.files : path.ext = ext}
        progress == {k \in 1..Len(wk.events) : wk.events[k].type = "progress"}
    IN  (/\ Len(workers) = 1
         /\ wk.kind = "batch" /\ wk.pc = "done"
         /\ \A j \in 1..K : \E c \in 1..Len(wk.book[j].content) :
               wk.book[j].content[c] \notin Whitespace
         /\ \A r \in 1..Len(wk.runs) : wk.runs[r].result = "True")
        => /\ Cardinality(files("mp3")) = K
           /\ Cardinality(files("lrc")) <= K
           /\ \A i \in 1..K : \E path \in files("mp3") :
                 /\ Len(path.name) > 4
                 /\ SubSeq(path.name, 1, 4) = Pad3(i) \o <<"-">>
           /\ progress # {}
           /\ \A k \in progress : (\A h \in progress : h <= k)
                                   => wk.events[k].a = 100

-----------------------------------------------------------------------------
(* The progress percentage, checked under SpecProgress *)

\* C10: the progress event put before the i-th of K chapters has the value
\* floor((i - 1) / K * 100).
ProgressIsFloorOfShare ==
    prog.pc = "done" => prog.pct = ((prog.i - 1) * 100) \div prog.total

-----------------------------------------------------------------------------
(* Properties of _convert_single_chapter_thread, checked under Spec *)

\* C11: a single-chapter conversion puts progress 0 at its start, progress
\* 80 after the synthesis returned True and progress 100 after the tagging
\* step, in that order, and then the event carrying the elapsed time;
\* progress 80 is never put when the synthesis did not succeed.
SingleProgressCheckpoints ==
    \A w \in 1..Len(workers) :
        LET wk == workers[w]
            progress == SelectSeq(wk.events, LAMBDA ev : ev.type = "progress")
            values == [k \in 1..Len(progress) |-> progress[k].a]
        IN  (wk.kind = "single" /\ wk.pc = "done")
            => /\ Len(values) >= 1 /\ values[1] = 0
               /\ wk.result = "True"
                  => /\ values = <<0, 80, 100>>
                     /\ \E k \in 1..Len(wk.events), h \in 1..Len(wk.events) :
                           /\ k < h
                           /\ wk.events[k] = Progress(100, 0)
                           /\ wk.events[h].msg = "elapsed"
               /\ wk.result # "True"
                  => \A k \in 1..Len(values) : values[k] # 80

\* C12: when the synthesis returned True and update_mp3_tag returned False,
\* the worker, single-chapter or batch, still reports success: it has put
\* the warning log event, the audio and subtitle files are on disk, and it
\* puts progress 100 and the events of completion as when tagging succeeds.
TagFailureStillSuccess ==
    \A w \in 1..Len(workers) :
        LET wk == workers[w]
            put(ev) == \E k \in 1..Len(wk.events) : wk.events[k] = ev
            warned == \E k \in 1..Len(wk.events) :
                         wk.events[k].type = "log" /\ wk.events[k].msg = "tag_failed"
        IN  (wk.pc = "done" /\ wk.error = "" /\ warned)
            => /\ put(Progress(100, 0))
               /\ put(Log("elapsed", <<>>, 0))
               /\ wk.kind = "single"
                  => /\ Exists(fs, wk.output_mp3)
                     /\ Exists(fs, wk.output_lrc)
                     /\ put(Log("done", wk.title, 0))
               /\ wk.kind = "batch" => put(Log("all_done", <<>>, 0))

-----------------------------------------------------------------------------
(* Properties of the event channel, checked under Spec *)

\* C13: the interface handles the effects of a worker in the order the
\* worker produced them, however late it polls; so once it has handled the
\* last effect of the only worker, the button callback its finally clause
\* schedules, none of the events that worker put before is still waiting on
\* the message queue.
EffectsHandledInOrder ==
    (/\ Len(workers) = 1
     /\ workers[1].pc = "done"
     /\ ui.after = <<>>)
    => message_queue = <<>>

\* C14: every failure path of a conversion request puts at least one log
\* event on the message queue; in particular the step in which a request is
\* rejected as busy puts an event.
RejectionPutsLogEvent ==
    [][ui'.busy > ui.busy
       => /\ Len(message_queue') > Len(message_queue)
          /\ message_queue'[Len(message_queue')].type = "log"]_vars

-----------------------------------------------------------------------------
(* SpecCall: one call of the batch loop's file-name derivation, or one     *)
(* call of update_mp3_tag on a disk that holds the audio file or not       *)

\* a title of n characters whose every stride-th character is bad
TitleOf(n, stride, bad) ==
    [k \in 1..n |-> IF k % stride = 0 THEN bad ELSE "a"]

TitleLens == 0..2 \cup (MaxTitleLen - 4)..MaxTitleLen
TitleStrides == {1, 2, 101, 1000}
CallTitles ==
    {TitleOf(n, stride, bad) :
        n \in TitleLens, stride \in TitleStrides, bad \in {"/", "?", "."}}

CallMp3 == [dir |-> "out", name |-> <<"a">>, ext |-> "mp3"]
CallLrc == [dir |-> "out", name |-> <<"a">>, ext |-> "lrc"]
CallDisks ==
    LET none == EmptyFs({"out"})
        audio == WriteFile(none, CallMp3, <<"x">>)
    IN  {none, audio, WriteFile(audio, CallLrc, <<"[", "]">>)}

InitCall ==
    /\ \/ /\ call \in {[pc |-> "call", fn |-> "safe_title", title |-> t,
                        i |-> i, ok |-> FALSE, outcome |-> "ok", value |-> <<>>] :
                            t \in CallTitles, i \in 1..MaxIndex}
          /\ fs = EmptyFs({})
       \/ /\ call \in {[pc |-> "call", fn |-> "update_mp3_tag", title |-> t,
                        i |-> 0, ok |-> FALSE, outcome |-> o, value |-> <<>>] :
                            t \in {<<"a">>, <<"b">>}, o \in TagOutcomes}
          /\ fs \in CallDisks
          \* mutagen opens the file only when there is one
          /\ call.outcome # "open_error" => Exists(fs, CallMp3)
    /\ chapters = <<>> /\ processing = FALSE /\ message_queue = <<>>
    /\ workers = <<>> /\ ui = NoUi
    /\ job = NoJob /\ fmt = NoFmt /\ prog = NoProg

SafeTitleStep ==
    /\ call.pc = "call" /\ call.fn = "safe_title"
    /\ call' = [call EXCEPT !.pc = "done",
                            !.value = SafeTitle(call.title, call.i)]
    /\ UNCHANGED <<chapters, processing, message_queue, workers, fs, ui, job,
                   fmt, prog>>

TagStep ==
    /\ call.pc = "call" /\ call.fn = "update_mp3_tag"
    /\ LET r == update_mp3_tag(fs, CallMp3, CallLrc, call.title, call.outcome)
       IN  /\ call' = [call EXCEPT !.pc = "done", !.ok = r.ok]
           /\ fs' = r.fs
    /\ UNCHANGED <<chapters, processing, message_queue, workers, ui, job, fmt,
                   prog>>

NextCall == SafeTitleStep \/ TagStep

SpecCall == InitCall /\ [][NextCall]_vars

StrippedTitle == SelectSeq(call.title, LAMBDA c : c \notin IllegalChars)

\* C15: the file-safe name of the batch loop holds no illegal character, is
\* the index-based placeholder when the title is empty after stripping, and
\* is at most 200 characters long, ending with "..." when the stripped title
\* was longer than 200 characters.
SafeNameIsClean ==
    (call.pc = "done" /\ call.fn = "safe_title")
    => /\ \A k \in 1..Len(call.value) : call.value[k] \notin IllegalChars
       /\ StrippedTitle = <<>>
            => call.value = <<"U7AE0", "U8282">> \o Decimal(call.i)
       /\ Len(call.value) <= 200
       /\ Len(StrippedTitle) > 200
            => /\ SubSeq(call.value, 198, 200) = <<".", ".", ".">>
               /\ SubSeq(call.value, 1, 197) = SubSeq(StrippedTitle, 1, 197)
       /\ Len(StrippedTitle) \in 1..200 => call.value = StrippedTitle

LongTitleCut ==
    /\ call.pc = "done" /\ call.fn = "safe_title"
    /\ Len(call.title) > Len(StrippedTitle)
    /\ Len(StrippedTitle) > 200

AllIllegalTitleNamed ==
    /\ call.pc = "done" /\ call.fn = "safe_title"
    /\ call.title # <<>> /\ StrippedTitle = <<>>

\* C16: an attempt of a job that raised a filesystem error (the output
\* directory cannot be created, the audio or the subtitle file cannot be
\* opened for writing) is the job's last: no retry delay follows it and no
\* further attempt is left to run.
FilesystemErrorIsFinal ==
    ( /\ job.outcomes # <<>>
      /\ job.outcomes[Len(job.outcomes)] = "raised"
      /\ job.last_error \in {"makedirs", "open_audio", "open_lrc"} )
    => /\ job.pc # "sleeping"
       /\ job.pc = "loop" => job.started >= job.max_retries

\* C17: a batch worker that ended because an exception left its loop has
\* processed no chapter after the failing one, has put a log event and a
\* status event for the error as its last events, has put no progress-100
\* and no completion event, and has left the processing flag reset.
BatchAbortsOnException ==
    \A w \in 1..Len(workers) :
        LET wk == workers[w]
            n == Len(wk.events)
        IN  (wk.kind = "batch" /\ wk.pc = "done" /\ wk.error # "")
            => /\ \A r \in 1..Len(wk.runs) : wk.runs[r].i < wk.i
               /\ \A k \in 1..n : wk.events[k].i <= wk.i
               /\ wk.it = wk.i
               /\ n >= 2
               /\ wk.events[n - 1] = Log("batch_error", <<>>, 0)
               /\ wk.events[n] = Status("batch_error", 0, 0, 0)
               /\ \A k \in 1..n :
                     /\ ~(wk.events[k].type = "progress" /\ wk.events[k].a = 100)
                     /\ wk.events[k].msg \notin {"batch_done", "all_done", "elapsed"}
               /\ w = Len(workers) => processing = FALSE

BatchEndedByException ==
    \E w \in 1..Len(workers) :
        /\ workers[w].kind = "batch" /\ workers[w].pc = "done"
        /\ workers[w].error = "ZeroDivisionError"
        /\ workers[w].book # <<>> /\ chapters = <<>>

\* C18: for an empty fragment sequence the formatter returns the empty
\* string, whatever chars_per_line is, and no line is produced.
EmptyInputGivesEmptyResult ==
    (fmt.pc = "done" /\ fmt.srt_content = get_srt(<<>>))
    => /\ fmt.result = <<>>
       /\ fmt.all_items = <<>>
       /\ fmt.merged_items = <<>>

EmptyInputConverted ==
    /\ fmt.pc = "done"
    /\ fmt.srt_content = get_srt(<<>>)
    /\ fmt.chars_per_line = MaxCharsPerLine

\* the k-th line of the returned text
ResultLine(k) == SplitLines(fmt.result)[k]

\* the position of the first colon of a line
FirstColon(line) ==
    CHOOSE c \in 1..Len(line) :
        line[c] = ":" /\ \A h \in 1..(c - 1) : line[h] # ":"

\* C19: every lyric line with start offset t renders as [MM:SS.CC]text with
\* MM = t div 60000, SS = (t div 1000) mod 60 and CC = (t mod 1000) div 10,
\* each of at least two digits, SS in 0..59 and CC in 0..99.
LinesRenderTruncatedTime ==
    (fmt.pc = "done" /\ fmt.merged_items # <<>>)
    => /\ Len(SplitLines(fmt.result)) = Len(fmt.merged_items)
       /\ \A k \in 1..Len(fmt.merged_items) :
             LET line == ResultLine(k)
                 t == fmt.merged_items[k].time_ms
                 c == FirstColon(line)
                 mm == SubSeq(line, 2, c - 1)
                 ss == SubSeq(line, c + 1, c + 2)
                 cc == SubSeq(line, c + 4, c + 5)
             IN  /\ \E h \in 1..Len(line) : line[h] = ":"
                 /\ Len(line) >= c + 6
                 /\ line[1] = "[" /\ line[c + 3] = "." /\ line[c + 6] = "]"
                 /\ Len(mm) >= 2
                 /\ \A h \in 2..(c + 5) : h \notin {c, c + 3} => line[h] \in Digit
                 /\ IntOf(mm) = t \div 60000
                 /\ IntOf(ss) = (t \div 1000) % 60 /\ IntOf(ss) \in 0..59
                 /\ IntOf(cc) = (t % 1000) \div 10 /\ IntOf(cc) \in 0..99
                 /\ SubSeq(line, c + 7, Len(line)) = fmt.merged_items[k].text

LateLineRendered ==
    /\ fmt.pc = "done"
    /\ Len(fmt.merged_items) = 1
    /\ fmt.merged_items[1].time_ms = 3599999
    /\ fmt.result = <<"[", "5", "9", ":", "5", "9", ".", "9", "9", "]", "a">>

\* C20: a call of update_mp3_tag returns a Boolean whatever mutagen meets:
\* False when opening or saving the audio file failed, the disk's tags then
\* left as they were, and True only with the tags saved for the audio file.
TaggerReturnsOutcome ==
    (call.pc = "done" /\ call.fn = "update_mp3_tag")
    => /\ call.ok \in BOOLEAN
       /\ call.outcome # "ok" => (call.ok = FALSE /\ fs.tags = <<>>)
       /\ call.ok = TRUE
            => /\ CallMp3 \in DOMAIN fs.tags
               /\ fs.tags[CallMp3].title = call.title
               /\ Exists(fs, CallLrc)
                    => fs.tags[CallMp3].lyrics = <<fs.files[CallLrc]>>

TaggerSaveFailed ==
    /\ call.pc = "done" /\ call.fn = "update_mp3_tag"
    /\ call.outcome = "save_error"
    /\ Exists(fs, CallMp3)
    /\ call.ok = FALSE

\* C21: a retry delay is waited after a failed attempt exactly when attempts
\* remain: a job with f failed attempts has begun f delays while attempts
\* remain and max_retries - 1 once it is exhausted, so that a job that
\* succeeds has waited f delays, no delay follows the final failed attempt,
\* and the exhausted job's last report is the final error of its last attempt.
DelayExactlyWhenAttemptsRemain ==
    LET f == Cardinality({k \in 1..Len(job.outcomes) : job.outcomes[k] = "raised"})
        n == Len(job.stderr)
    IN  f >= 1
        => /\ f <= job.max_retries
           /\ job.sleeps = IF f < job.max_retries THEN f ELSE job.max_retries - 1
           /\ f = job.max_retries => job.pc # "sleeping"
           /\ job.slept = (IF job.pc = "sleeping" THEN job.sleeps - 1 ELSE job.sleeps)
                            * RETRY_DELAY_SECONDS
           /\ (job.pc = "returned" /\ job.result = "True")
                => (job.sleeps = f /\ job.slept = f * RETRY_DELAY_SECONDS)
           /\ (job.pc = "returned" /\ job.result = "False")
                => /\ f = job.max_retries
                   /\ job.sleeps = job.max_retries - 1
                   /\ n >= 2
                   /\ job.stderr[n - 1] = [kind |-> "final_error", attempt |-> f]
                   /\ job.stderr[n] = [kind |-> "traceback", attempt |-> f]

JobExhaustedAfterTwoDelays ==
    /\ job.pc = "returned" /\ job.result = "False"
    /\ job.max_retries = 3
    /\ job.sleeps = 2 /\ job.slept = 2 * RETRY_DELAY_SECONDS
    /\ job.stderr[Len(job.stderr)].kind = "traceback"

\* C22: the produced lines cut the time-ordered fragments into consecutive
\* groups; each line's text is its group's texts concatenated and its start
\* time the time of the group's first fragment; every line but the last is at
\* least chars_per_line long; and every line without the text of its last
\* fragment is shorter than chars_per_line.  No fragment that reaches the
\* buffer has an empty text.
LinesAreBufferedGroups ==
    LET items == fmt.all_items
        lines == fmt.merged_items
        n == Len(items)
        m == Len(lines)
        cpl == fmt.chars_per_line
        ItemsLen(e) == Len(Concat([k \in 1..e |-> items[k].text]))
        LinesLen(h) == Len(Concat([k \in 1..h |-> lines[k].text]))
        last(h) == CHOOSE e \in 0..n : ItemsLen(e) = LinesLen(h)
        first(h) == last(h - 1) + 1
    IN  (fmt.pc = "done" /\ n >= 1)
        => /\ \A k \in 1..n : items[k].text # <<>>
           /\ m >= 1
           /\ \A h \in 0..m : \E e \in 0..n : ItemsLen(e) = LinesLen(h)
           /\ last(m) = n
           /\ \A h \in 1..m :
                 /\ first(h) <= last(h)
                 /\ lines[h].text =
                       Concat([k \in 1..(last(h) - first(h) + 1) |->
                                  items[first(h) + k - 1].text])
                 /\ lines[h].time_ms = items[first(h)].time_ms
                 /\ h < m => Len(lines[h].text) >= cpl
                 /\ Len(lines[h].text) - Len(items[last(h)].text) < cpl

OvershootingLineThenShortLine ==
    /\ fmt.pc = "done"
    /\ fmt.chars_per_line = 2
    /\ fmt.all_items = <<[time_ms |-> 0, text |-> <<"a">>],
                         [time_ms |-> 300, text |-> <<"b", "c">>],
                         [time_ms |-> 600, text |-> <<"a">>]>>
    /\ fmt.merged_items = <<[time_ms |-> 0, text |-> <<"a", "b", "c">>],
                            [time_ms |-> 600, text |-> <<"a">>]>>

\* C23: whatever the fragments, some or all of them with an empty text
\* included, no lyric line has an empty text and no rendered line ends at
\* its time tag.
NoEmptyLyricLine ==
    fmt.pc = "done"
    => /\ \A k \in 1..Len(fmt.merged_items) : fmt.merged_items[k].text # <<>>
       /\ fmt.result # <<>>
            => \A k \in 1..Len(SplitLines(fmt.result)) :
                  LET line == SplitLines(fmt.result)[k]
                  IN  line # <<>> /\ line[Len(line)] # "]"

EmptyFragmentLeftNoLine ==
    /\ fmt.pc = "done"
    /\ fmt.srt_content = get_srt(<<WordBoundary(0, 250, <<"a">>),
                                   WordBoundary(300, 250, <<>>)>>)
    /\ fmt.merged_items = <<[time_ms |-> 0, text |-> <<"a">>]>>

\* C24: a conversion worker that has ended, on whichever path, has closed
\* the event loop it created.
EventLoopClosedAtEnd ==
    \A w \in 1..Len(workers) :
        workers[w].pc = "done" => workers[w].loop # "open"

\* C25: no stream of the speech provider is run by the interface thread:
\* the voice preview too is synthesised on a background thread.
NoStreamOnInterfaceThread == ui.interface_streams = 0

\* C26: in every state the processing flag is true exactly when a
\* conversion worker, batch or single-chapter, is running.
ProcessingIffWorkerRuns ==
    processing <=> \E w \in 1..Len(workers) : Running(w)

\* C28: when a job has returned True after one or more failed attempts, the
\* audio file holds exactly the audio data streamed during the attempt that
\* completed, in arrival order, and nothing a failed attempt wrote.
AudioIsOfSuccessfulAttempt ==
    (/\ job.pc = "returned" /\ job.result = "True"
     /\ \E k \in 1..Len(job.outcomes) : job.outcomes[k] = "raised")
    => /\ Exists(fs, job.output_audio)
       /\ fs.files[job.output_audio] = job.streamed

SucceededAfterInterruptedStream ==
    /\ job.pc = "returned" /\ job.result = "True"
    /\ job.outcomes = <<"raised", "completed">>
    /\ job.last_error = "stream"
    /\ Len(job.streamed) = 2
    /\ fs.files[job.output_audio] = job.streamed

\* C29: in every state of a job the attempts started number between 0 and
\* max_retries and the synthesis client was constructed at most once per
\* attempt; with max_retries = 0 the client is never constructed and the job
\* returns False.
AttemptsWithinMaxRetries ==
    /\ job.started \in 0..job.max_retries
    /\ Len(job.outcomes) = job.started
    /\ job.client_calls <= job.started
    /\ job.max_retries = 0
         => /\ job.client_calls = 0
            /\ job.pc \in {"loop", "returned"}
            /\ job.pc = "returned" => job.result = "False"
            /\ fs = EmptyFs({})

ZeroRetriesReturnedFalse ==
    /\ job.max_retries = 0
    /\ job.pc = "returned" /\ job.result = "False"
    /\ \E k \in 1..Len(job.text) : job.text[k] \notin Whitespace
    /\ job.client_calls = 0

\* C30: every started conversion worker ends, and ends with the processing
\* flag false; a single-chapter worker runs at most one job and a batch at
\* most one job for each chapter of the book it was requested for, and the
\* job a worker is about to run makes at most MAX_RETRIES attempts however
\* the provider behaves.
WorkersTerminate ==
    /\ \A w \in 1..MaxRequests :
          (w <= Len(workers))
             ~> (w <= Len(workers) /\ workers[w].pc = "done" /\ processing = FALSE)
    /\ [](\A w \in 1..Len(workers) :
             LET wk == workers[w]
             IN  /\ Len(wk.runs) <= (IF wk.kind = "single" THEN 1 ELSE Len(wk.book))
                 /\ wk.pc = "synth"
                      => \A st \in RunJob(fs, wk.content, wk.output_mp3,
                                          wk.output_lrc, DEFAULT_CHARS_PER_LINE) :
                            /\ st.job.pc = "returned"
                            /\ st.job.started <= MAX_RETRIES)

BothWorkersEnded ==
    /\ Len(workers) = 2
    /\ \E w \in 1..2 : workers[w].kind = "batch" /\ workers[w].error # ""
    /\ \E w \in 1..2 : workers[w].kind = "single" /\ workers[w].result = "False"
    /\ \A w \in 1..2 : workers[w].pc = "done"
    /\ processing = FALSE

\* C27: a batch that has ended has handled (converted or skipped) every
\* chapter the book had when the batch was requested, once each and in list
\* order, with that number of chapters as the total of every status it put,
\* whatever was deleted or saved meanwhile.
BatchHandlesBookAsRequested ==
    \A w \in 1..Len(workers) :
        LET wk == workers[w]
            K == Len(wk.book)
            handled == SelectSeq(wk.events,
                           LAMBDA ev : ev.type = "log"
                                       /\ ev.msg \in {"process", "skip_empty"})
        IN  (wk.kind = "batch" /\ wk.pc = "done")
            => /\ Len(handled) = K
               /\ \A j \in 1..Len(handled) :
                     /\ handled[j].i = j
                     /\ j <= K => /\ handled[j].title = wk.book[j].title
                                  /\ handled[j].msg = "skip_empty"
                                       <=> IsEmptyChapter(wk.book[j].content)
               /\ \A k \in 1..Len(wk.events) :
                     wk.events[k].type = "status" /\ wk.events[k].msg = "processing"
                        => wk.events[k].b = K

====
